---- MODULE Spec2Model ----
(***************************************************************************)
(* Call-negotiation engine of DesiYatra: the vendor orchestrator           *)
(* (bargainer/tools.py), the atomic call tools over the active_calls store *)
(* (bargainer/atomic_tools.py), the streaming negotiation loop             *)
(* (bargainer/streaming_negotiator.py) and the webhook turn                *)
(* (agents/main.py).                                                       *)
(*                                                                         *)
(* Prices are Python floats in the source.  They are modelled here as      *)
(* fixed-point decimals with five fractional digits (Px(3000) is 3000.0),  *)
(* which represents every quote of the first five rounds exactly; binary   *)
(* rounding error below 1e-5 is not modelled.                              *)
(***************************************************************************)
EXTENDS Integers, Sequences, FiniteSets, TLC

VARIABLES
    \* ---- negotiate_all_vendors (bargainer/tools.py) ----
    taskPc,        \* vendor -> position of its sem_task coroutine
    taskRound,     \* vendor -> round_num of _negotiate_one_vendor (0 outside the loop)
    taskQuote,     \* vendor -> current_quote of _negotiate_one_vendor (None outside the loop)
    taskResult,    \* vendor -> what its task handed to gather
    sem,           \* free slots of asyncio.Semaphore(3)
    batchPc,       \* "gathering" until asyncio.gather returns, then "returned"
    batchDeals,    \* final_output["deals"]
    batchBudget,   \* trip_context["budget_max"] of the batch
    lastDeal,      \* the vendor whose task was the last to return a Deal (0: none yet)
    \* ---- active_calls store and the atomic tools (bargainer/atomic_tools.py) ----
    store,         \* call_id -> document of collection active_calls, or Absent
    lastCall,      \* the document _get_call_state gave the last tool call
    lastReturn,    \* what the last tool call returned
    escalate,      \* tool_context.actions.escalate
    placed,        \* a Twilio call was placed for the vendor (client.calls.create answered)
    sendCall,      \* invocation -> the call a send_message in progress has read
    \* ---- run_streaming_negotiation (bargainer/streaming_negotiator.py) ----
    streamPc,      \* position of the negotiation task of the call
    streamRound,   \* its local round_num
    streamHistory, \* its local history list
    streamSpoken,  \* the agent_response of the round being spoken
    hangups,       \* hang-up requests that reached the telephony collaborator
    audio_buffer,  \* GoogleSTTVoice.audio_buffer: the frames received and not yet transcribed
    streamCancelled, \* the negotiation task has been cancelled
    streamExit,    \* how the task left its while loop ("" while it has not)
    oracle_up,     \* the negotiation oracle (Gemini) can be reached
    ffmpeg_up,     \* the transcoder (ffmpeg) yields audio
    frames_sent,   \* outbound media frames the last speak() sent to Twilio
    stt_request,   \* full_audio of the last request listen() sent to the recogniser
    \* ---- twilio_media_stream (agents/main.py) ----
    connPc,        \* position of the connection handler
    negotiation_task, \* the handler's negotiation_task is not None
    starts,        \* start events received on the connection
    orphans,       \* tasks created on the connection that negotiation_task no longer names
    \* ---- twilio_status_callback (agents/main.py) ----
    call_status,   \* call_id -> CallStatus of the last status callback acknowledged
    active_streams, \* call_id -> the connection whose voice stream is registered ("" if none)
    peerPc,        \* position of a second connection handler on the same call_id
    \* ---- the call-session state machine (agents.bargainer.agent) ----
    sm             \* the CallSession of the state machine

batchVars == <<taskPc, taskRound, taskQuote, taskResult, sem, batchPc, batchDeals, batchBudget,
              lastDeal>>
toolVars  == <<store, lastCall, lastReturn, escalate, placed, sendCall>>
streamVars == <<streamPc, streamRound, streamHistory, streamSpoken, hangups,
                audio_buffer, streamCancelled, streamExit, oracle_up, ffmpeg_up,
                frames_sent, stt_request>>
connVars  == <<connPc, negotiation_task, starts, orphans, call_status, active_streams,
              peerPc>>
smVars    == <<sm>>
vars      == <<batchVars, toolVars, streamVars, connVars, smVars>>

----------------------------------------------------------------------------
(* Fixed-point prices *)

Scale == 10 * 10 * 10 * 10 * 10

Px(n) == n * Scale

\* floor(q * num / den) without leaving 32-bit integers
MulFrac(q, num, den) == (q \div den) * num + ((q % den) * num) \div den

\* "no value": Python None for a price
None == 0 - 1

----------------------------------------------------------------------------
(* Bounds *)

\* number of vendors handed to negotiate_all_vendors
NumVendors == 4

Vendors == 1 .. NumVendors

----------------------------------------------------------------------------
(* The active_calls store: bargainer/atomic_tools.py, _get_call_state,      *)
(* _save_call_state, _delete_call_state.  A document is a record whose      *)
(* `fields` component names the fields it really holds; the other           *)
(* components are meaningful only for the fields listed there.              *)

\* vendors are identified by their phone number
Phones == {"p1"}

\* call_id = f"call_{vendor['phone']}": the trip is not part of the id
CallIdOf(phone, trip) == phone

CallIds == {CallIdOf(p, "t1") : p \in Phones}

\* trip contexts handed to initiate_call: budget_max and market_rate
TripIds == {"t1", "t2"}
BudgetMax(t) == IF t = "t1" THEN Px(3000) ELSE Px(3500)
MarketRate(t) == Px(2800)

Absent ==
    [exists |-> FALSE, fields |-> {}, vendor |-> "", trip_context |-> "",
     round |-> 0, current_quote |-> None, history |-> <<>>,
     twilio_call_sid |-> "", status |-> "", final_round |-> 0, stage |-> ""]

\* doc.to_dict() if doc.exists else None
_get_call_state(call_id) == store[call_id]

\* a set that only fills in the fields the document does not hold yet
MergeSet_keepstored(old, state, fs) ==
    [f \in DOMAIN old |->
        IF f = "exists" THEN TRUE
        ELSE IF f = "fields" THEN old.fields \cup fs
        ELSE IF f \in fs /\ f \notin old.fields THEN state[f]
        ELSE old[f]]

\* document(call_id).set(state, merge=True): the fields of state replace the
\* stored ones, every other stored field is kept, a missing document is created
MergeSet(old, state, fs) ==
    [f \in DOMAIN old |->
        IF f = "exists" THEN TRUE
        ELSE IF f = "fields" THEN old.fields \cup fs
        ELSE IF f \in fs THEN state[f]
        ELSE old[f]]

_save_call_state(call_id, state, fs) ==
    store' = [store EXCEPT ![call_id] = MergeSet(@, state, fs)]

\* a delete that leaves the document in place
_delete_call_state_skipped(call_id) ==
    UNCHANGED store

_delete_call_state(call_id) ==
    store' = [store EXCEPT ![call_id] = Absent]

\* the vendor dict handed to initiate_call: a Vendor of shared/types.py
VendorDict(phone) == [name |-> "Sharma Travels", phone |-> phone, category |-> "taxi"]

\* a Deal of shared/types.py; NoDeal where a tool returns none
NoDeal == [vendor_name |-> "", phone |-> "", service_type |-> "",
           negotiated_price |-> None, status |-> ""]

\* tool results
NoReturn == [op |-> "", kind |-> "", call_id |-> "", vendor |-> "", price |-> None, round |-> 0, reason |-> "", deal |-> NoDeal]
ErrorReturn(op, c) == [op |-> op, kind |-> "error", call_id |-> c, vendor |-> "", price |-> None, round |-> 0, reason |-> "", deal |-> NoDeal]
RaisedReturn(op, c) == [op |-> op, kind |-> "raised", call_id |-> c, vendor |-> "", price |-> None, round |-> 0, reason |-> "", deal |-> NoDeal]

\* a history turn
Turn(speaker, text, offer) == [speaker |-> speaker, text |-> text, offer |-> offer]

----------------------------------------------------------------------------
(* Atomic tools: bargainer/atomic_tools.py *)

\* the bound on the rounds played through send_message
MaxToolRound == 6

\* the arguments the agent passes
Messages == {"counter"}
OfferArgs == {None}
FinalPrices(call) ==
    {Px(100), MarketRate("t1")} \cup
    (IF call.exists /\ call.current_quote # None THEN {call.current_quote} ELSE {})

\* client.calls.create(...) answers with a call SID
TwilioSid == "CA1"

InitialCallState(phone, trip) ==
    [vendor |-> phone, trip_context |-> trip, round |-> 0, current_quote |-> None,
     history |-> <<>>, twilio_call_sid |-> "", status |-> "INITIATED", final_round |-> 0]

InitialFields == {"vendor", "trip_context", "round", "current_quote", "history",
                  "twilio_call_sid", "status"}

\* an initiate_call that takes the session back when the dial fails
initiate_call_rollback(phone, trip, use_real_twilio, dial_ok) ==
    LET call_id == CallIdOf(phone, trip)
        saved == MergeSet(store[call_id], InitialCallState(phone, trip), InitialFields)
    IN  /\ lastCall' = Absent
        /\ IF use_real_twilio /\ dial_ok
           THEN /\ store' = [store EXCEPT ![call_id] =
                                MergeSet(saved, [twilio_call_sid |-> TwilioSid], {"twilio_call_sid"})]
                /\ placed' = TRUE
                /\ lastReturn' = [op |-> "initiate_call", kind |-> "CALL_INITIATED",
                                  call_id |-> call_id, vendor |-> phone, price |-> None,
                                  round |-> 0, reason |-> "", deal |-> NoDeal]
           ELSE IF use_real_twilio
           THEN /\ store' = [store EXCEPT ![call_id] = Absent]
                /\ lastReturn' = ErrorReturn("initiate_call", "")
                /\ UNCHANGED placed
           ELSE /\ store' = [store EXCEPT ![call_id] = saved]
                /\ lastReturn' = [op |-> "initiate_call", kind |-> "CALL_INITIATED",
                                  call_id |-> call_id, vendor |-> phone, price |-> None,
                                  round |-> 0, reason |-> "", deal |-> NoDeal]
                /\ UNCHANGED placed
        /\ UNCHANGED <<escalate, sendCall, batchVars, streamVars, connVars, smVars>>

\* initiate_call(vendor, trip_context, use_real_twilio): the session is saved
\* before dialing; a failed dial returns an error and leaves the saved session
initiate_call(phone, trip, use_real_twilio, dial_ok) ==
    LET call_id == CallIdOf(phone, trip)
        saved == MergeSet(store[call_id], InitialCallState(phone, trip), InitialFields)
    IN  /\ lastCall' = Absent
        /\ IF use_real_twilio /\ dial_ok
           THEN /\ store' = [store EXCEPT ![call_id] =
                                MergeSet(saved, [twilio_call_sid |-> TwilioSid], {"twilio_call_sid"})]
                /\ placed' = TRUE
                /\ lastReturn' = [op |-> "initiate_call", kind |-> "CALL_INITIATED",
                                  call_id |-> call_id, vendor |-> phone, price |-> None,
                                  round |-> 0, reason |-> "", deal |-> NoDeal]
           ELSE IF use_real_twilio
           THEN /\ store' = [store EXCEPT ![call_id] = saved]
                /\ lastReturn' = ErrorReturn("initiate_call", "")
                /\ UNCHANGED placed
           ELSE /\ store' = [store EXCEPT ![call_id] = saved]
                /\ lastReturn' = [op |-> "initiate_call", kind |-> "CALL_INITIATED",
                                  call_id |-> call_id, vendor |-> phone, price |-> None,
                                  round |-> 0, reason |-> "", deal |-> NoDeal]
                /\ UNCHANGED placed
        /\ UNCHANGED <<escalate, sendCall, batchVars, streamVars, connVars, smVars>>

\* a concession rounded to whole rupees
Concede92_rounded(q) == ((MulFrac(q, 23, 25) + Scale \div 2) \div Scale) * Scale

\* call["current_quote"] *= 0.92
Concede92(q) == MulFrac(q, 23, 25)

\* the simulated vendor of send_message: opens at 4000.0, then concedes
NextQuote(q) == IF q = None THEN Px(4000) ELSE Concede92(q)

\* the fields send_message reads with call[...]; a document without one of
\* them makes the tool raise KeyError before anything is saved
SendFields == {"round", "history", "current_quote"}

\* send_message(call_id, message, offer)
send_message(call_id, message, offer) ==
    LET call == _get_call_state(call_id) IN
    /\ lastCall' = call
    /\ IF ~call.exists
       THEN /\ lastReturn' = ErrorReturn("send_message", call_id)
            /\ UNCHANGED store
       ELSE IF ~(SendFields \subseteq call.fields)
       THEN /\ lastReturn' = RaisedReturn("send_message", call_id)
            /\ UNCHANGED store
       ELSE LET q == NextQuote(call.current_quote)
                updated == [call EXCEPT
                              !.round = @ + 1,
                              !.history = @ \o <<Turn("agent", message, offer),
                                                 Turn("vendor", "rate", q)>>,
                              !.current_quote = q]
            IN  /\ call.round < MaxToolRound
                /\ _save_call_state(call_id, updated, call.fields)
                /\ lastReturn' = [op |-> "send_message", kind |-> "ok", call_id |-> call_id,
                                  vendor |-> "", price |-> q, round |-> updated.round, reason |-> "",
                                  deal |-> NoDeal]
    /\ UNCHANGED <<escalate, placed, sendCall, batchVars, streamVars, connVars, smVars>>

\* the invocations of send_message that may be in progress at once: the tool
\* is served by more than one worker, and Firestore is shared by all of them
Invocations == {1, 2}

NoCallRead == [call_id |-> "", call |-> Absent]

\* send_message as far as `call = _get_call_state(call_id)`: one Firestore
\* read; a missing session is answered at once
send_message_get(i, call_id) ==
    LET call == _get_call_state(call_id) IN
    /\ sendCall[i] = NoCallRead
    /\ IF ~call.exists
       THEN /\ lastCall' = call
            /\ lastReturn' = ErrorReturn("send_message", call_id)
            /\ UNCHANGED sendCall
       ELSE /\ call.round < MaxToolRound
            /\ sendCall' = [sendCall EXCEPT ![i] = [call_id |-> call_id, call |-> call]]
            /\ UNCHANGED <<lastCall, lastReturn>>
    /\ UNCHANGED <<store, escalate, placed, batchVars, streamVars, connVars, smVars>>

\* send_message from the read on: the round is played on the copy read and
\* `_save_call_state(call_id, call)` writes that copy back (a second Firestore
\* request, no transaction around the two)
send_message_save(i, message, offer) ==
    LET call_id == sendCall[i].call_id
        call == sendCall[i].call
    IN
    /\ sendCall[i] # NoCallRead
    /\ sendCall' = [sendCall EXCEPT ![i] = NoCallRead]
    /\ lastCall' = call
    /\ IF ~(SendFields \subseteq call.fields)
       THEN /\ lastReturn' = RaisedReturn("send_message", call_id)
            /\ UNCHANGED store
       ELSE LET q == NextQuote(call.current_quote)
                updated == [call EXCEPT
                              !.round = @ + 1,
                              !.history = @ \o <<Turn("agent", message, offer),
                                                 Turn("vendor", "rate", q)>>,
                              !.current_quote = q]
            IN  /\ _save_call_state(call_id, updated, call.fields)
                /\ lastReturn' = [op |-> "send_message", kind |-> "ok", call_id |-> call_id,
                                  vendor |-> "", price |-> q, round |-> updated.round, reason |-> "",
                                  deal |-> NoDeal]
    /\ UNCHANGED <<escalate, placed, batchVars, streamVars, connVars, smVars>>

\* accept_deal(call_id, final_price)
accept_deal(call_id, final_price) ==
    LET call == _get_call_state(call_id) IN
    /\ lastCall' = call
    /\ IF ~call.exists
       THEN /\ lastReturn' = ErrorReturn("accept_deal", call_id)
            /\ UNCHANGED store
       ELSE IF "vendor" \notin call.fields
       THEN /\ lastReturn' = RaisedReturn("accept_deal", call_id)
            /\ UNCHANGED store
       ELSE /\ lastReturn' = [op |-> "accept_deal", kind |-> "DEAL_SUCCESS",
                              call_id |-> "", vendor |-> call.vendor,
                              price |-> final_price, round |-> 0, reason |-> "",
                              deal |-> [vendor_name |-> VendorDict(call.vendor).name,
                                        phone |-> VendorDict(call.vendor).phone,
                                        service_type |-> VendorDict(call.vendor).category,
                                        negotiated_price |-> final_price,
                                        status |-> "DEAL_SUCCESS"]]
            /\ _delete_call_state(call_id)
    /\ UNCHANGED <<escalate, placed, sendCall, batchVars, streamVars, connVars, smVars>>

\* end_call(tool_context, call_id, reason)
end_call(call_id, reason) ==
    LET call == _get_call_state(call_id) IN
    /\ lastCall' = call
    /\ IF ~call.exists
       THEN /\ lastReturn' = ErrorReturn("end_call", call_id)
            /\ UNCHANGED <<store, escalate>>
       ELSE IF "vendor" \notin call.fields
       THEN /\ lastReturn' = RaisedReturn("end_call", call_id)
            /\ UNCHANGED <<store, escalate>>
       ELSE /\ lastReturn' = [op |-> "end_call", kind |-> "CALL_ENDED", call_id |-> call_id,
                              vendor |-> "", price |-> None, round |-> 0, reason |-> reason,
                              deal |-> NoDeal]
            /\ _delete_call_state(call_id)
            /\ escalate' = TRUE
    /\ UNCHANGED <<placed, sendCall, batchVars, streamVars, connVars, smVars>>

ToolInit ==
    /\ store = [c \in CallIds |-> Absent]
    /\ lastCall = Absent
    /\ lastReturn = NoReturn
    /\ escalate = FALSE
    /\ placed = FALSE
    /\ sendCall = [i \in Invocations |-> NoCallRead]

----------------------------------------------------------------------------
(* Streaming negotiation loop: bargainer/streaming_negotiator.py *)

\* max_rounds = 6
max_rounds == 6

\* what listen() can return: "" (no transcript) or the vendor's words
Transcripts == {"", "rate 5000"}

\* what generate_negotiation_response can return: the oracle's answer (a
\* counter-offer, or a text holding an end signal), or its fallback utterance
\* when the oracle is unavailable (`except Exception`)
OracleAnswers == {"counter", "done"}
Responses == IF oracle_up THEN OracleAnswers ELSE {"fallback"}

\* a fallback utterance that thanks the vendor
FallbackUtterance_thanks ==
    <<"T", "h", "a", "n", "k", " ", "y", "o", "u", " ", "b", "h", "a", "i", "y", "a", ".">>

\* "Thoda mehenga lag raha hai bhaiya, kuch kam kijiye na.": the fallback
\* utterance of generate_negotiation_response, character by character
FallbackUtterance ==
    <<"T", "h", "o", "d", "a", " ", "m", "e", "h", "e", "n", "g",
       "a", " ", "l", "a", "g", " ", "r", "a", "h", "a", " ", "h",
       "a", "i", " ", "b", "h", "a", "i", "y", "a", ",", " ", "k",
       "u", "c", "h", " ", "k", "a", "m", " ", "k", "i", "j", "i",
       "y", "e", " ", "n", "a", "." >>

\* the text of a response; the oracle's own answers are examples: a
\* counter-offer, and the closing sentence the prompt asks for
ResponseText(response) ==
    CASE response = "fallback" -> FallbackUtterance
      [] response = "done" -> <<"J", "i", " ", "t", "h", "e", "e", "k", " ", "h", "a", "i", ",", " ", "D", "o", "n", "e", ".">>
      [] OTHER -> <<"B", "h", "a", "i", "y", "a", ",", " ", "2", "8", "0", "0", " ", "l", "a", "g", "a", "i", "y", "e", ".">>

\* str.lower() on the letters that occur
LowerChar(ch) ==
    CASE ch = "T" -> "t" [] ch = "J" -> "j" [] ch = "D" -> "d" [] ch = "B" -> "b"
      [] OTHER -> ch

Lower(text) == [i \in 1 .. Len(text) |-> LowerChar(text[i])]

\* `signal in text`: signal occurs as a contiguous part of text
Contains(text, signal) ==
    \E i \in 1 .. (Len(text) - Len(signal) + 1) :
        SubSeq(text, i, i + Len(signal) - 1) = signal

\* the end signals; a signal written in Devanagari is one symbol here, since
\* no Latin-script utterance can hold it
end_signals ==
    { <<"t", "h", "a", "n", "k", " ", "y", "o", "u">>,
      <<"d", "o", "n", "e">>,
      <<"dhanyavaad (Devanagari)">>, <<"thank you (Devanagari)">>,
      <<"phir hum aur kahin dekh lete hain (Devanagari)">>,
      <<"budget ke bahar hai (Devanagari)">>,
      <<"confirm karta hoon (Devanagari)">>, <<"done (Devanagari)">>,
      <<"theek hai bhaiya (Devanagari)">> }

\* the responses for which
\* any(signal in agent_response.lower() for signal in end_signals) holds
EndingResponses ==
    {response \in OracleAnswers \cup {"fallback"} :
        \E signal \in end_signals : Contains(Lower(ResponseText(response)), signal)}

\* a check that finds no end signal in any response
EndsCall_never(response) == FALSE

\* the end-signal check on the response just spoken
EndsCall(response) == response \in EndingResponses

\* a loop that plays one round more
LoopHead_onemore(round_num) ==
    IF round_num <= max_rounds
    THEN /\ streamRound' = round_num + 1
         /\ streamPc' = "listen"
         /\ UNCHANGED streamExit
    ELSE /\ streamRound' = round_num
         /\ streamPc' = "closing"
         /\ streamExit' = "max_rounds"

\* `while round_num < max_rounds: round_num += 1 ... await asyncio.sleep(5)`,
\* or the way to the finally block once the condition fails
LoopHead(round_num) ==
    IF round_num < max_rounds
    THEN /\ streamRound' = round_num + 1
         /\ streamPc' = "listen"
         /\ UNCHANGED streamExit
    ELSE /\ streamRound' = round_num
         /\ streamPc' = "closing"
         /\ streamExit' = "max_rounds"

\* the first step of the task: the document is read once, round_num = 0,
\* and the task waits in the first sleep(5)
StreamBegin(call_id) ==
    /\ streamHistory' = (IF "history" \in store[call_id].fields
                         THEN store[call_id].history ELSE <<>>)
    /\ LoopHead(0)
    /\ UNCHANGED <<streamSpoken, hangups, audio_buffer, oracle_up, ffmpeg_up, frames_sent, stt_request, streamCancelled,
                   toolVars, batchVars, connVars, smVars>>

\* run_streaming_negotiation(call_id, voice_stream) is started
StreamStart(call_id) ==
    /\ streamPc = "idle"
    /\ StreamBegin(call_id)

\* the payloads of inbound media events, and the frames that may wait in the
\* buffer between two listens
Payloads == {"a", "b"}
MaxBuffered == 2

\* GoogleSTTVoice.process_twilio_audio: self.audio_buffer.append(audio_bytes)
process_twilio_audio(audio_payload) ==
    /\ audio_buffer' = Append(audio_buffer, audio_payload)
    /\ UNCHANGED <<streamPc, streamRound, streamHistory, streamSpoken, hangups,
                   oracle_up, ffmpeg_up, frames_sent, stt_request, streamCancelled,
                   streamExit, toolVars, batchVars, connVars, smVars>>

\* vendor audio reaches the buffer of a task followed without its connection
\* handler: one frame, while nothing is buffered
VendorAudio ==
    /\ audio_buffer = <<>>
    /\ process_twilio_audio("a")

\* GoogleSTTVoice.listen: "" when nothing is buffered; otherwise the buffer is
\* emptied and the recogniser gives the vendor's words, or "" (no result, or
\* an error, which listen catches)
ListenResults == IF audio_buffer # <<>> THEN Transcripts ELSE {""}

\* a listen that leaves the frames it sent in the buffer
listen_keepbuffer ==
    /\ UNCHANGED audio_buffer
    /\ stt_request' = (IF audio_buffer = <<>> THEN stt_request ELSE audio_buffer)

\* GoogleSTTVoice.listen as far as the recogniser: with nothing buffered no
\* request is made; otherwise full_audio = b"".join(self.audio_buffer), the
\* buffer is emptied and full_audio is the content of one recognize request.
\* listen has no await, so no media event is handled in between.
listen ==
    /\ audio_buffer' = <<>>
    /\ stt_request' = (IF audio_buffer = <<>> THEN stt_request ELSE audio_buffer)

\* a round that speaks its utterance without having saved the snapshot
RoundBody_unsaved(call_id, transcript, response) ==
    LET h == streamHistory \o <<Turn("user", transcript, None),
                                Turn("assistant", response, None)>>
    IN  /\ streamHistory' = h
        /\ UNCHANGED store
        /\ streamSpoken' = response
        /\ streamPc' = "speak"
        /\ UNCHANGED <<streamRound, streamExit>>

\* history.append x2, brain.generate_negotiation_response, doc_ref.set(...),
\* then the task waits in speak
RoundBody(call_id, transcript, response) ==
    LET h == streamHistory \o <<Turn("user", transcript, None),
                                Turn("assistant", response, None)>>
    IN  /\ streamHistory' = h
        /\ _save_call_state(call_id, [history |-> h, round |-> streamRound],
                            {"history", "round"})
        /\ streamSpoken' = response
        /\ streamPc' = "speak"
        /\ UNCHANGED <<streamRound, streamExit>>

\* the oracle becomes unreachable, or reachable again
OracleFlip ==
    /\ oracle_up' = ~oracle_up
    /\ UNCHANGED <<streamPc, streamRound, streamHistory, streamSpoken, hangups,
                   audio_buffer, streamCancelled, streamExit, ffmpeg_up, frames_sent,
                   stt_request, toolVars, batchVars, connVars, smVars>>

\* ffmpeg starts failing, or works again
FfmpegFlip ==
    /\ ffmpeg_up' = ~ffmpeg_up
    /\ UNCHANGED <<streamPc, streamRound, streamHistory, streamSpoken, hangups,
                   audio_buffer, streamCancelled, streamExit, oracle_up, frames_sent,
                   stt_request, toolVars, batchVars, connVars, smVars>>

\* convert_mp3_to_mulaw(full_mp3): the mulaw bytes, b"" when ffmpeg cannot
\* be run (`except Exception: return b""`) or gives no output
convert_mp3_to_mulaw == IF ffmpeg_up THEN <<"mulaw">> ELSE <<>>

\* a speak that sends a frame with whatever the converter returned
speak_frames_unchecked(mulaw_audio) == 1

\* the end of GoogleSTTVoice.speak: `if mulaw_audio and self.twilio_ws:` one
\* media frame is sent on the websocket, else the failure is logged; the
\* websocket is attached before the first speak of a connection
speak_frames(mulaw_audio) == IF mulaw_audio # <<>> THEN 1 ELSE 0

\* first listen() of the round, after the 5 s wait
StreamListen(call_id) ==
    /\ streamPc = "listen"
    /\ listen
    /\ \E transcript \in ListenResults :
          IF transcript = ""
          THEN /\ streamPc' = "listen2"
               /\ UNCHANGED <<streamRound, streamHistory, streamSpoken, streamExit, store>>
          ELSE \E response \in Responses : RoundBody(call_id, transcript, response)
    /\ UNCHANGED <<hangups, oracle_up, ffmpeg_up, frames_sent, streamCancelled, lastCall, lastReturn,
                   escalate, placed, sendCall,
                   batchVars, connVars, smVars>>

\* a round that is played even though nothing was heard
StreamListenAgain_played(call_id) ==
    /\ streamPc = "listen2"
    /\ listen
    /\ \E transcript \in ListenResults :
          \E response \in Responses : RoundBody(call_id, transcript, response)
    /\ UNCHANGED <<hangups, oracle_up, ffmpeg_up, frames_sent, streamCancelled, lastCall, lastReturn,
                   escalate, placed, sendCall,
                   batchVars, connVars, smVars>>

\* second listen() after the extra 3 s; still nothing: `continue`
StreamListenAgain(call_id) ==
    /\ streamPc = "listen2"
    /\ listen
    /\ \E transcript \in ListenResults :
          IF transcript = ""
          THEN /\ LoopHead(streamRound)
               /\ UNCHANGED <<streamHistory, streamSpoken, store>>
          ELSE \E response \in Responses : RoundBody(call_id, transcript, response)
    /\ UNCHANGED <<hangups, oracle_up, ffmpeg_up, frames_sent, streamCancelled, lastCall, lastReturn,
                   escalate, placed, sendCall,
                   batchVars, connVars, smVars>>

\* speak() returns, having sent the utterance as one media frame or dropped
\* it (or it raises: except Exception leads to finally); then the end-signal
\* check
StreamSpeak ==
    /\ streamPc = "speak"
    /\ \/ /\ frames_sent' = speak_frames(convert_mp3_to_mulaw)
          /\ IF EndsCall(streamSpoken)
             THEN /\ streamPc' = "closing"
                  /\ streamExit' = "end_signal"
                  /\ UNCHANGED streamRound
             ELSE LoopHead(streamRound)
       \/ /\ frames_sent' = 0
          /\ streamPc' = "closing"
          /\ streamExit' = "error"
          /\ UNCHANGED streamRound
    /\ UNCHANGED <<streamHistory, streamSpoken, hangups, audio_buffer, oracle_up, ffmpeg_up,
                   stt_request, streamCancelled,
                   toolVars, batchVars, connVars, smVars>>

\* _hangup_call: a request reaches Twilio only if the document exists and
\* holds a call SID
_hangup_call(call_id) ==
    IF store[call_id].exists /\ "twilio_call_sid" \in store[call_id].fields
       /\ store[call_id].twilio_call_sid # ""
    THEN hangups' = hangups + 1
    ELSE UNCHANGED hangups

\* finally: sleep(3), _hangup_call, doc_ref.set({status, final_round}, merge=True)
StreamClose(call_id) ==
    /\ streamPc = "closing"
    /\ _hangup_call(call_id)
    /\ _save_call_state(call_id, [status |-> "COMPLETED", final_round |-> streamRound],
                        {"status", "final_round"})
    /\ streamPc' = "done"
    /\ UNCHANGED <<streamRound, streamHistory, streamSpoken, audio_buffer, oracle_up, ffmpeg_up, frames_sent, stt_request, streamCancelled,
                   streamExit, lastCall, lastReturn, escalate, placed, sendCall, batchVars,
                   connVars, smVars>>

StreamInit ==
    /\ streamPc = "idle"
    /\ streamRound = 0
    /\ streamHistory = <<>>
    /\ streamSpoken = ""
    /\ hangups = 0
    /\ audio_buffer = <<>>
    /\ streamCancelled = FALSE
    /\ streamExit = ""
    /\ oracle_up = TRUE
    /\ ffmpeg_up = TRUE
    /\ frames_sent = 0
    /\ stt_request = <<>>

----------------------------------------------------------------------------
(* Webhook turn: agents/main.py, twilio_gather_callback *)

\* the turns one call takes through the gather webhook
MaxGatherTurns == 2

\* SpeechResult of the form
GatherTranscripts == {"rate 5000"}

\* POST /twilio/gather/{call_id}: the document is read (an absent one reads as
\* {}), the stage decides the turn; in stage NEGOTIATION the history read is
\* extended by the vendor's words and the oracle's answer and written back.
\* Nothing awaits between the read and the write.
twilio_gather_callback(call_id, transcript) ==
    LET call_state == store[call_id]
        current_stage == IF "stage" \in call_state.fields THEN call_state.stage
                         ELSE "INITIATED"
        history == IF "history" \in call_state.fields THEN call_state.history ELSE <<>>
    IN  /\ IF current_stage = "INITIATED"
           THEN _save_call_state(call_id, [stage |-> "NEGOTIATION"], {"stage"})
           ELSE IF current_stage = "NEGOTIATION"
           THEN /\ Len(history) < 2 * MaxGatherTurns
                /\ \E response \in Responses :
                      _save_call_state(call_id,
                          [history |-> history \o <<Turn("user", transcript, None),
                                                    Turn("agent", response, None)>>],
                          {"history"})
           ELSE UNCHANGED store
        /\ UNCHANGED <<lastCall, lastReturn, escalate, placed, sendCall, batchVars, streamVars,
                       connVars, smVars>>

\* CallStatus of the form: the events initiate_call subscribes to, and the
\* other terminal ones the handler names
CallStatuses == {"ringing", "answered", "completed", "failed", "busy", "no-answer"}

\* `if call_status in ["completed", "failed", "busy", "no-answer"]`
TerminalStatuses == {"completed", "failed", "busy", "no-answer"}

\* POST /twilio/status/{call_id}: a terminal status is logged; the answer is
\* {"status": "acknowledged"} in every case and the store is not touched
twilio_status_callback(call_id, status) ==
    /\ call_status' = [call_status EXCEPT ![call_id] = status]
    /\ UNCHANGED <<connPc, negotiation_task, starts, orphans, active_streams, peerPc,
                   toolVars, batchVars, streamVars, smVars>>

----------------------------------------------------------------------------
(* Media-stream connection handler: agents/main.py, twilio_media_stream.     *)
(* The stream variables follow the task that negotiation_task names; a task  *)
(* whose reference a later start event overwrote is counted in `orphans`,    *)
(* and only the closing block of such a task is followed.                    *)

\* the number of start events one connection delivers
MaxStarts == 2

\* the task negotiation_task names has been created and has not ended
TaskInFlight == streamPc \in {"created", "listen", "listen2", "speak", "closing"}

\* negotiation_task.cancel(), followed by the task's next step: CancelledError
\* is raised at the await the task is suspended in.  It is not an Exception,
\* so `except Exception` lets it pass and the finally block starts its
\* sleep(3); raised inside that sleep it ends the finally block at once; a
\* task that has not run its first step yet never enters the try block.
\* The handler calls cancel() on "stop" and again in its finally block with no
\* await in between: the task sees one CancelledError.
negotiation_task_cancel ==
    IF negotiation_task /\ TaskInFlight
    THEN /\ streamCancelled' = TRUE
         /\ streamPc' = (IF streamPc \in {"created", "closing"}
                         THEN "cancelled" ELSE "closing")
    ELSE UNCHANGED <<streamPc, streamCancelled>>

\* event "start": attach_twilio_ws, active_streams[call_id] = voice_stream,
\* then the handler awaits the greeting: `await voice_stream.speak(...)` runs
\* inside the `async for` over the messages, so no further message of the
\* connection is read until speak returns
ConnStart(call_id) ==
    /\ connPc = "open"
    /\ starts < MaxStarts
    /\ starts' = starts + 1
    /\ active_streams' = [active_streams EXCEPT ![call_id] = "conn"]
    /\ connPc' = "greeting"
    /\ UNCHANGED <<negotiation_task, orphans, call_status, peerPc, streamVars, toolVars,
                   batchVars, smVars>>

\* the greeting's speak returns: asyncio.create_task(...) is assigned to
\* negotiation_task, whatever it named before, and the handler reads on
ConnGreeted(call_id) ==
    /\ connPc = "greeting"
    /\ connPc' = "open"
    /\ frames_sent' = speak_frames(convert_mp3_to_mulaw)
    /\ orphans' = (IF negotiation_task /\ TaskInFlight THEN orphans + 1 ELSE orphans)
    /\ negotiation_task' = TRUE
    /\ streamPc' = "created"
    /\ streamRound' = 0
    /\ streamHistory' = <<>>
    /\ streamSpoken' = ""
    /\ streamCancelled' = FALSE
    /\ streamExit' = ""
    /\ UNCHANGED <<starts, call_status, active_streams, peerPc, hangups, audio_buffer,
                   oracle_up, ffmpeg_up, stt_request, toolVars, batchVars, smVars>>

\* event "media": the payload is buffered
ConnMedia(payloads, cap) ==
    /\ connPc = "open"
    /\ Len(audio_buffer) < cap
    /\ \E audio_payload \in payloads : process_twilio_audio(audio_payload)

\* event "stop", WebSocketDisconnect or an exception while an event is
\* handled (the greeting's speak raising included): the finally block cancels
\* the task negotiation_task names, cleans up, deletes active_streams[call_id]
\* if the key is there, and the handler returns
ConnClose(call_id) ==
    /\ connPc \in {"open", "greeting"}
    /\ negotiation_task_cancel
    /\ connPc' = "returned"
    /\ active_streams' = [active_streams EXCEPT ![call_id] = ""]
    /\ UNCHANGED <<negotiation_task, starts, orphans, call_status, peerPc, streamRound,
                   streamHistory, streamSpoken, streamExit, hangups, audio_buffer,
                   oracle_up, ffmpeg_up, frames_sent, stt_request, toolVars,
                   batchVars, smVars>>

\* a second connection on /twilio/stream/{call_id} for the same call_id,
\* followed only through the registry: its start event
PeerStart(call_id) ==
    /\ peerPc = "open"
    /\ peerPc' = "started"
    /\ active_streams' = [active_streams EXCEPT ![call_id] = "peer"]
    /\ UNCHANGED <<connPc, negotiation_task, starts, orphans, call_status, streamVars,
                   toolVars, batchVars, smVars>>

\* the second connection's handler ends: its finally block
PeerClose(call_id) ==
    /\ peerPc \in {"open", "started"}
    /\ peerPc' = "returned"
    /\ active_streams' = [active_streams EXCEPT ![call_id] = ""]
    /\ UNCHANGED <<connPc, negotiation_task, starts, orphans, call_status, streamVars,
                   toolVars, batchVars, smVars>>

\* the first step of the task created by the handler
TaskFirstStep(call_id) ==
    /\ streamPc = "created"
    /\ StreamBegin(call_id)

\* a task no longer named by negotiation_task reaches its finally block
OrphanClose(call_id) ==
    /\ orphans > 0
    /\ orphans' = orphans - 1
    /\ _hangup_call(call_id)
    /\ \E r \in 1 .. max_rounds :
          _save_call_state(call_id, [status |-> "COMPLETED", final_round |-> r],
                           {"status", "final_round"})
    /\ UNCHANGED <<streamPc, streamRound, streamHistory, streamSpoken, audio_buffer,
                   oracle_up, ffmpeg_up, frames_sent, stt_request, streamCancelled, streamExit,
                   connPc, negotiation_task, starts, call_status, active_streams, peerPc,
                   lastCall, lastReturn, escalate, placed, sendCall, batchVars, smVars>>

ConnInit ==
    /\ connPc = "open"
    /\ negotiation_task = FALSE
    /\ starts = 0
    /\ orphans = 0
    /\ call_status = [c \in CallIds |-> ""]
    /\ active_streams = [c \in CallIds |-> ""]
    /\ peerPc = "open"

----------------------------------------------------------------------------
(* The call-session state machine, agents.bargainer.agent.  Its code is not  *)
(* in the source tree; it is modelled from the specification's negotiation   *)
(* state machine and from the calls tests/test_bargainer.py makes.           *)

\* max_negotiation_attempts=5
max_negotiation_attempts == 5

\* user_budget=3000.0
user_budget == Px(3000)

\* what the vendor may quote; 0 is "no quote"
VendorQuotes == {0, Px(2900), Px(3100), Px(3250), Px(3400), Px(5000)}

\* the acceptance threshold: within budget with 5% flex, or close enough
\* (within 10% above budget) once the vendor has been engaged two rounds
Acceptable(q, budget, round) ==
    \/ q <= MulFrac(budget, 21, 20)
    \/ round >= 2 /\ q <= MulFrac(budget, 11, 10)

\* a pitch at the budget itself
PitchOffer_noslack(budget) == budget

\* the opening counter-offer: budget plus 5% negotiation room
PitchOffer(budget) == MulFrac(budget, 21, 20)

\* rounds are left when the last one may still be played
RoundsLeft_offbyone(round) == round <= max_negotiation_attempts

\* another counter-offer is allowed while round < max_rounds
RoundsLeft(round) == round < max_negotiation_attempts

\* process_vendor_response(call_id, vendor_quote, vendor_message)
process_vendor_response(q) ==
    /\ sm.state = "INITIATED"
    /\ sm' = [sm EXCEPT !.state = "GREETING", !.current_quote = q,
                         !.next_action = "QUALIFY_VENDOR"]
    /\ UNCHANGED <<batchVars, toolVars, streamVars, connVars>>

\* qualify_vendor(call_id): no quote ends in DEADLOCK
qualify_vendor ==
    /\ sm.state = "GREETING"
    /\ sm' = IF sm.current_quote = None \/ sm.current_quote = 0
             THEN [sm EXCEPT !.state = "DEADLOCK", !.next_action = "END_CALL"]
             ELSE [sm EXCEPT !.state = "QUALIFYING",
                             !.next_action = IF sm.current_quote <= user_budget
                                             THEN "CONFIRM_DEAL" ELSE "REQUEST_FLEXIBILITY"]
    /\ UNCHANGED <<batchVars, toolVars, streamVars, connVars>>

\* start_negotiation(call_id): a quote within budget goes toward CONFIRMING,
\* any other quote is answered with the pitch
start_negotiation ==
    /\ sm.state = "QUALIFYING"
    /\ sm' = IF sm.current_quote <= user_budget
             THEN [sm EXCEPT !.state = "CONFIRMING", !.next_action = "CONFIRM_DEAL"]
             ELSE [sm EXCEPT !.state = "PITCHING", !.counter_offer = PitchOffer(user_budget),
                             !.next_action = "AWAIT_VENDOR_RESPONSE"]
    /\ UNCHANGED <<batchVars, toolVars, streamVars, connVars>>

\* process_negotiation_round(call_id, vendor_response_quote, ...)
process_negotiation_round(q) ==
    /\ sm.state \in {"PITCHING", "NEGOTIATING"}
    /\ LET round == sm.round + 1
           base == [sm EXCEPT !.round = round, !.current_quote = q,
                              !.discount = sm.current_quote - q]
       IN  sm' = IF Acceptable(q, user_budget, round)
                 THEN [base EXCEPT !.state = "CONFIRMING", !.next_action = "CONFIRM_DEAL"]
                 ELSE IF RoundsLeft(sm.round)
                 THEN [base EXCEPT !.state = "NEGOTIATING",
                                   !.counter_offer = (MarketRate("t1") + q) \div 2,
                                   !.next_action = "CONTINUE_NEGOTIATION"]
                 ELSE [base EXCEPT !.state = "CLOSING",
                                   !.next_action = "FINAL_OFFER_OR_REJECT"]
    /\ UNCHANGED <<batchVars, toolVars, streamVars, connVars>>

\* CLOSING: one last accept/reject decision
closing_decision(accept) ==
    /\ sm.state = "CLOSING"
    /\ sm' = IF accept
             THEN [sm EXCEPT !.state = "CONFIRMING", !.next_action = "CONFIRM_DEAL"]
             ELSE [sm EXCEPT !.state = "DEADLOCK", !.next_action = "END_CALL"]
    /\ UNCHANGED <<batchVars, toolVars, streamVars, connVars>>

\* confirm_booking(call_id)
confirm_booking ==
    /\ sm.state = "CONFIRMING"
    /\ sm.next_action = "CONFIRM_DEAL"
    /\ sm' = [sm EXCEPT !.next_action = "CLOSE_CALL"]
    /\ UNCHANGED <<batchVars, toolVars, streamVars, connVars>>

\* end_call(call_id, success=True) of the state machine
machine_end_call ==
    /\ sm.state = "CONFIRMING"
    /\ sm.next_action = "CLOSE_CALL"
    /\ sm' = [sm EXCEPT !.state = "COMPLETED", !.next_action = "DONE"]
    /\ UNCHANGED <<batchVars, toolVars, streamVars, connVars>>

MachineInit ==
    sm = [state |-> "INITIATED", current_quote |-> None, round |-> 0,
          counter_offer |-> None, discount |-> 0, next_action |-> ""]

----------------------------------------------------------------------------
(* Vendor orchestrator: bargainer/tools.py *)

\* asyncio.Semaphore(3)
K == 3

\* range(1, 6): the last round number of _negotiate_one_vendor
SimLastRound == 5

\* trip_context.get("market_rate", 2800.0)
DefaultMarketRate == 2800

\* trip_context.get("budget_max", 3000.0)
DefaultBudgetMax == 3000

\* VoicePipeline.listen in simulated mode: "Our best price is 3200."
SimListen == <<"Our", "best", "price", "is", "3200.">>

\* the words float() accepts after "." has been removed, and their values
NumberWords == [w \in {"3200"} |-> 3200]

\* str.replace(".", "") on one word
StripDots(w) == IF w = "3200." THEN "3200" ELSE w

\* vendor_response.split("is ")[-1]: the words after the last "is"
RECURSIVE AfterLastIs(_)
AfterLastIs(ws) ==
    IF \E i \in 1 .. Len(ws) : ws[i] = "is"
    THEN AfterLastIs(SubSeq(ws, (CHOOSE i \in 1 .. Len(ws) : ws[i] = "is") + 1, Len(ws)))
    ELSE ws

\* float(vendor_response.split("is ")[-1].replace(".", "")), 4000.0 on ValueError
ParseSimQuote(ws) ==
    LET tail == AfterLastIs(ws) IN
    IF Len(tail) = 1 /\ StripDots(tail[1]) \in DOMAIN NumberWords
    THEN Px(NumberWords[StripDots(tail[1])])
    ELSE Px(4000)

\* current_quote *= 0.95
Concede95(q) == MulFrac(q, 19, 20)

Pending  == [kind |-> "pending", price |-> 0]
NullRes  == [kind |-> "null", price |-> 0]
ExcRes   == [kind |-> "exc", price |-> 0]
DealRes(p) == [kind |-> "deal", price |-> p]

\* brain.determine_next_move(context): the negotiation oracle.  Its code is not
\* in the source tree; it is an opaque collaborator that may return any action
\* with any offer.
OracleActions == {"accept", "counter"}
OracleOffers(q) == {q, Px(DefaultMarketRate)}

\* a gate that never closes
SemFree_ungated == TRUE

\* async with sem: the gate lets a task in only while a slot is free
SemFree == sem > 0

\* `async with sem:` entered; uuid4(), VoicePipeline(), NegotiationBrain() run
\* before the try block, so an exception there leaves the task through the
\* context manager (slot released) and reaches gather as an exception.
sem_task_enter(v) ==
    /\ taskPc[v] = "queued"
    /\ SemFree
    /\ \/ /\ taskPc' = [taskPc EXCEPT ![v] = "sleep"]
          /\ sem' = sem - 1
          /\ UNCHANGED taskResult
       \/ /\ taskPc' = [taskPc EXCEPT ![v] = "done"]
          /\ taskResult' = [taskResult EXCEPT ![v] = ExcRes]
          /\ UNCHANGED sem
    /\ UNCHANGED <<taskRound, taskQuote, batchPc, batchDeals, batchBudget, lastDeal, toolVars, streamVars, connVars, smVars>>

\* a failing greeting that keeps its slot
negotiate_greet_leak(v) ==
    /\ taskPc[v] = "sleep"
    /\ \/ /\ taskPc' = [taskPc EXCEPT ![v] = "round"]
          /\ taskQuote' = [taskQuote EXCEPT ![v] = ParseSimQuote(SimListen)]
          /\ taskRound' = [taskRound EXCEPT ![v] = 1]
          /\ UNCHANGED <<taskResult, sem>>
       \/ /\ taskPc' = [taskPc EXCEPT ![v] = "done"]
          /\ taskResult' = [taskResult EXCEPT ![v] = NullRes]
          /\ UNCHANGED <<sem, taskQuote, taskRound>>
    /\ UNCHANGED <<batchPc, batchDeals, batchBudget, lastDeal, toolVars, streamVars, connVars, smVars>>

\* after sleep(0.5): greeting, listen, rate question, listen, quote parsing;
\* an exception inside the try block is caught and the task returns None.
negotiate_greet(v) ==
    /\ taskPc[v] = "sleep"
    /\ \/ /\ taskPc' = [taskPc EXCEPT ![v] = "round"]
          /\ taskQuote' = [taskQuote EXCEPT ![v] = ParseSimQuote(SimListen)]
          /\ taskRound' = [taskRound EXCEPT ![v] = 1]
          /\ UNCHANGED <<taskResult, sem>>
       \/ /\ taskPc' = [taskPc EXCEPT ![v] = "done"]
          /\ taskResult' = [taskResult EXCEPT ![v] = NullRes]
          /\ sem' = sem + 1
          /\ UNCHANGED <<taskQuote, taskRound>>
    /\ UNCHANGED <<batchPc, batchDeals, batchBudget, lastDeal, toolVars, streamVars, connVars, smVars>>

\* one iteration of `for round_num in range(1, 6)` after its sleep(0.2)
negotiate_round(v) ==
    /\ taskPc[v] = "round"
    /\ \/ \E action \in OracleActions, offer \in OracleOffers(taskQuote[v]) :
            IF action = "accept"
            THEN /\ taskPc' = [taskPc EXCEPT ![v] = "done"]
                 /\ taskResult' = [taskResult EXCEPT ![v] = DealRes(offer)]
                 /\ sem' = sem + 1
                 /\ taskQuote' = [taskQuote EXCEPT ![v] = None]
                 /\ taskRound' = [taskRound EXCEPT ![v] = 0]
                 /\ lastDeal' = v
            ELSE IF taskRound[v] < SimLastRound
            THEN /\ taskQuote' = [taskQuote EXCEPT ![v] = Concede95(@)]
                 /\ taskRound' = [taskRound EXCEPT ![v] = @ + 1]
                 /\ UNCHANGED <<taskPc, taskResult, sem, lastDeal>>
            ELSE \* the loop is exhausted: "reached a deadlock", return None
                 /\ taskPc' = [taskPc EXCEPT ![v] = "done"]
                 /\ taskResult' = [taskResult EXCEPT ![v] = NullRes]
                 /\ sem' = sem + 1
                 /\ taskQuote' = [taskQuote EXCEPT ![v] = None]
                 /\ taskRound' = [taskRound EXCEPT ![v] = 0]
                 /\ UNCHANGED lastDeal
       \/ \* the oracle or the voice pipeline raises: except Exception -> None
          /\ taskPc' = [taskPc EXCEPT ![v] = "done"]
          /\ taskResult' = [taskResult EXCEPT ![v] = NullRes]
          /\ sem' = sem + 1
          /\ taskQuote' = [taskQuote EXCEPT ![v] = None]
          /\ taskRound' = [taskRound EXCEPT ![v] = 0]
          /\ UNCHANGED lastDeal
    /\ UNCHANGED <<batchPc, batchDeals, batchBudget, toolVars, streamVars, connVars, smVars>>

\* gather without return_exceptions: the first exception ends the wait
GatherReady_failfast ==
    \/ \A v \in Vendors : taskPc[v] = "done"
    \/ \E v \in Vendors : taskResult[v].kind = "exc"

\* asyncio.gather(*tasks, return_exceptions=True): returns once every task has
\* finished, exceptions included as results
GatherReady == \A v \in Vendors : taskPc[v] = "done"

\* a loop over results that appends whatever is truthy, exceptions included
RECURSIVE CollectDeals_keepexc(_)
CollectDeals_keepexc(v) ==
    IF v > NumVendors THEN <<>>
    ELSE IF taskResult[v].kind \in {"deal", "exc"}
         THEN <<[vendor |-> v, price |-> taskResult[v].price]>> \o CollectDeals_keepexc(v + 1)
         ELSE CollectDeals_keepexc(v + 1)

\* a loop that walks the results from the last vendor to the first
RECURSIVE CollectDeals_backward(_)
CollectDeals_backward(v) ==
    IF v > NumVendors THEN <<>>
    ELSE IF taskResult[v].kind = "deal"
         THEN CollectDeals_backward(v + 1) \o <<[vendor |-> v, price |-> taskResult[v].price]>>
         ELSE CollectDeals_backward(v + 1)

\* the loop over results: exceptions are logged, truthy results appended,
\* in the order of the input list
RECURSIVE CollectDeals(_)
CollectDeals(v) ==
    IF v > NumVendors THEN <<>>
    ELSE IF taskResult[v].kind = "deal"
         THEN <<[vendor |-> v, price |-> taskResult[v].price]>> \o CollectDeals(v + 1)
         ELSE CollectDeals(v + 1)

negotiate_all_vendors_return ==
    /\ batchPc = "gathering"
    /\ GatherReady
    /\ batchDeals' = CollectDeals(1)
    /\ batchPc' = "returned"
    /\ UNCHANGED <<taskPc, taskRound, taskQuote, taskResult, sem, batchBudget, lastDeal, toolVars, streamVars, connVars, smVars>>

\* the trip contexts a batch is run with
Budgets == {Px(DefaultBudgetMax)}

InitBatch ==
    /\ ToolInit
    /\ StreamInit
    /\ ConnInit
    /\ MachineInit
    /\ taskPc = [v \in Vendors |-> "queued"]
    /\ taskRound = [v \in Vendors |-> 0]
    /\ taskQuote = [v \in Vendors |-> None]
    /\ taskResult = [v \in Vendors |-> Pending]
    /\ sem = K
    /\ batchPc = "gathering"
    /\ batchDeals = <<>>
    /\ batchBudget \in Budgets
    /\ lastDeal = 0

BatchNext ==
    \/ \E v \in Vendors : sem_task_enter(v)
    \/ \E v \in Vendors : negotiate_greet(v)
    \/ \E v \in Vendors : negotiate_round(v)
    \/ negotiate_all_vendors_return

SpecBatch == InitBatch /\ [][BatchNext]_vars

\* the event loop runs every task that can take a step: a queued task is
\* woken when a slot is released, a sleeping one when its sleep ends, and
\* gather returns once the last task is done
SpecBatchFair == InitBatch /\ [][BatchNext]_vars /\ WF_vars(BatchNext)

----------------------------------------------------------------------------
(* One call session driven by the agent's tools and by the streaming task *)

BatchIdle ==
    /\ taskPc = [v \in Vendors |-> "done"]
    /\ taskRound = [v \in Vendors |-> 0]
    /\ taskQuote = [v \in Vendors |-> None]
    /\ taskResult = [v \in Vendors |-> NullRes]
    /\ sem = K
    /\ batchPc = "returned"
    /\ batchDeals = <<>>
    /\ batchBudget = Px(DefaultBudgetMax)
    /\ lastDeal = 0

Init ==
    /\ ToolInit
    /\ StreamInit
    /\ ConnInit
    /\ MachineInit
    /\ BatchIdle

\* the agent's tool calls on the call sessions
Next ==
    \/ \E p \in Phones, t \in TripIds, real \in BOOLEAN, ok \in BOOLEAN :
          initiate_call(p, t, real, ok)
    \/ \E c \in CallIds, m \in Messages, o \in OfferArgs : send_message(c, m, o)
    \/ \E c \in CallIds : \E fp \in FinalPrices(store[c]) : accept_deal(c, fp)
    \/ \E c \in CallIds : end_call(c, "max_rounds_reached")

Spec == Init /\ [][Next]_vars

\* a call placed by initiate_call and driven by the streaming task, while the
\* agent that placed it may end it with end_call
StreamNext ==
    \/ \E p \in Phones, t \in TripIds, real \in BOOLEAN, ok \in BOOLEAN :
          initiate_call(p, t, real, ok)
    \/ \E c \in CallIds : end_call(c, "no_deal")
    \/ \E c \in CallIds : StreamStart(c)
    \/ VendorAudio
    \/ \E c \in CallIds : StreamListen(c)
    \/ \E c \in CallIds : StreamListenAgain(c)
    \/ StreamSpeak
    \/ \E c \in CallIds : StreamClose(c)

SpecStream == Init /\ [][StreamNext]_vars

\* the task of one placed call, its collaborators failing or answering: the
\* recogniser, the oracle, the synthesiser
RoundsNext ==
    \/ \E p \in Phones, t \in TripIds, ok \in BOOLEAN :
          /\ ~store[CallIdOf(p, t)].exists
          /\ initiate_call(p, t, TRUE, ok)
    \/ \E c \in CallIds : store[c].exists /\ StreamStart(c)
    \/ VendorAudio
    \/ OracleFlip
    \/ \E c \in CallIds : StreamListen(c)
    \/ \E c \in CallIds : StreamListenAgain(c)
    \/ StreamSpeak
    \/ \E c \in CallIds : StreamClose(c)

\* the steps of the negotiation task itself
TaskStep ==
    \/ \E c \in CallIds : StreamListen(c)
    \/ \E c \in CallIds : StreamListenAgain(c)
    \/ StreamSpeak
    \/ \E c \in CallIds : StreamClose(c)

SpecRounds == Init /\ [][RoundsNext]_vars

\* both kinds of call: the batch of simulated calls and, after a batch that
\* found no deal, a placed call served by the streaming task.  Every sleep
\* ends and every awaited collaborator answers or raises, so a task that can
\* step does step.
CallsNext ==
    \/ BatchNext
    \/ BatchIdle /\ RoundsNext

SpecCalls ==
    InitBatch /\ [][CallsNext]_vars /\ WF_vars(BatchNext) /\ WF_vars(TaskStep)

\* a call placed by initiate_call, then its media stream served by the handler
ConnNext ==
    \/ /\ starts = 0
       /\ \E p \in Phones, t \in TripIds, real \in BOOLEAN, ok \in BOOLEAN :
             initiate_call(p, t, real, ok)
    \/ \E c \in CallIds : ConnStart(c)
    \/ \E c \in CallIds : ConnGreeted(c)
    \/ ConnMedia({"a"}, 1)
    \/ \E c \in CallIds : ConnClose(c)
    \/ \E c \in CallIds : TaskFirstStep(c)
    \/ \E c \in CallIds : StreamListen(c)
    \/ \E c \in CallIds : StreamListenAgain(c)
    \/ StreamSpeak
    \/ \E c \in CallIds : StreamClose(c)
    \/ \E c \in CallIds : OrphanClose(c)

SpecConn == Init /\ [][ConnNext]_vars

\* one session lifetime touched by the webhook turn and the streaming task
SharedNext ==
    \/ \E p \in Phones, t \in TripIds, real \in BOOLEAN, ok \in BOOLEAN :
          /\ ~store[CallIdOf(p, t)].exists
          /\ initiate_call(p, t, real, ok)
    \/ \E c \in CallIds, tr \in GatherTranscripts : twilio_gather_callback(c, tr)
    \/ \E c \in CallIds : StreamStart(c)
    \/ VendorAudio
    \/ \E c \in CallIds : StreamListen(c)
    \/ \E c \in CallIds : StreamListenAgain(c)
    \/ StreamSpeak
    \/ \E c \in CallIds : StreamClose(c)

SpecShared == Init /\ [][SharedNext]_vars

\* one call_id reached by the agent's turn tools and by Twilio's webhooks
WebhookNext ==
    \/ \E p \in Phones, t \in TripIds, real \in BOOLEAN, ok \in BOOLEAN :
          initiate_call(p, t, real, ok)
    \/ \E c \in CallIds, m \in Messages, o \in OfferArgs : send_message(c, m, o)
    \/ \E c \in CallIds : \E fp \in FinalPrices(store[c]) : accept_deal(c, fp)
    \/ \E c \in CallIds : end_call(c, "max_rounds_reached")
    \/ \E c \in CallIds, tr \in GatherTranscripts : twilio_gather_callback(c, tr)
    \/ \E c \in CallIds, st \in CallStatuses : twilio_status_callback(c, st)

SpecWebhook == Init /\ [][WebhookNext]_vars

\* one placed call and its media stream: the frames of the vendor's audio,
\* the transcoder failing or working, one start event on the connection
VoiceNext ==
    \/ \E p \in Phones :
          /\ ~store[CallIdOf(p, "t1")].exists
          /\ initiate_call(p, "t1", TRUE, TRUE)
    \/ \E c \in CallIds : starts = 0 /\ store[c].exists /\ ConnStart(c)
    \/ \E c \in CallIds : ConnGreeted(c)
    \/ ConnMedia(Payloads, MaxBuffered)
    \/ \E c \in CallIds : ConnClose(c)
    \/ FfmpegFlip
    \/ \E c \in CallIds : TaskFirstStep(c)
    \/ \E c \in CallIds : StreamListen(c)
    \/ \E c \in CallIds : StreamListenAgain(c)
    \/ StreamSpeak
    \/ \E c \in CallIds : StreamClose(c)

SpecVoice == Init /\ [][VoiceNext]_vars

\* two connections on the stream endpoint of one call_id
RegistryNext ==
    \/ \E p \in Phones :
          /\ ~store[CallIdOf(p, "t1")].exists
          /\ initiate_call(p, "t1", TRUE, TRUE)
    \/ \E c \in CallIds : starts = 0 /\ store[c].exists /\ ConnStart(c)
    \/ \E c \in CallIds : ConnGreeted(c)
    \/ ConnMedia({"a"}, 1)
    \/ \E c \in CallIds : ConnClose(c)
    \/ \E c \in CallIds : PeerStart(c)
    \/ \E c \in CallIds : PeerClose(c)
    \/ \E c \in CallIds : TaskFirstStep(c)
    \/ \E c \in CallIds : StreamListen(c)
    \/ \E c \in CallIds : StreamListenAgain(c)
    \/ StreamSpeak
    \/ \E c \in CallIds : StreamClose(c)

SpecRegistry == Init /\ [][RegistryNext]_vars

\* one session played through send_message by two workers at once
ConcurrentNext ==
    \/ \E p \in Phones :
          /\ ~store[CallIdOf(p, "t1")].exists
          /\ initiate_call(p, "t1", FALSE, TRUE)
    \/ \E i \in Invocations, c \in CallIds : send_message_get(i, c)
    \/ \E i \in Invocations, m \in Messages, o \in OfferArgs : send_message_save(i, m, o)
    \/ \E c \in CallIds : \E fp \in FinalPrices(store[c]) : accept_deal(c, fp)
    \/ \E c \in CallIds : end_call(c, "max_rounds_reached")

SpecConcurrent == Init /\ [][ConcurrentNext]_vars

\* the call-session state machine on its own
MachineNext ==
    \/ \E q \in VendorQuotes : process_vendor_response(q)
    \/ qualify_vendor
    \/ start_negotiation
    \/ \E q \in VendorQuotes \ {0} : process_negotiation_round(q)
    \/ \E accept \in BOOLEAN : closing_decision(accept)
    \/ confirm_booking
    \/ machine_end_call

SpecMachine == Init /\ [][MachineNext]_vars

----------------------------------------------------------------------------
(* The turn instruction of negotiation_turn_agent: bargainer/agent.py *)

\* "If current_quote <= budget_max: Call accept_deal with the current_quote.
\*  If current_quote > budget_max but close: Use send_message ...
\*  If round >= 5: Call end_call", read in the order written
InstructedMove(call) ==
    IF call.current_quote # None /\ call.current_quote <= BudgetMax(call.trip_context)
    THEN "accept_deal"
    ELSE IF call.round >= 5 THEN "end_call"
    ELSE "send_message"

----------------------------------------------------------------------------
(* Properties *)

ActiveTasks == {v \in Vendors : taskPc[v] \in {"sleep", "round"}}

\* C1: at no instant are more than K = 3 vendor negotiations inside the
\* counting gate, for a batch of more than K vendors.
C1_AtMostKActive ==
    /\ Cardinality(ActiveTasks) <= K
    /\ sem = K - Cardinality(ActiveTasks)

\* the gate is full and holds a further vendor back
C1_Witness ==
    /\ Cardinality(ActiveTasks) = K
    /\ \E v \in Vendors : taskPc[v] = "queued"

DealVendors == {batchDeals[i].vendor : i \in 1 .. Len(batchDeals)}

\* C2: a vendor task that raises contributes no deal and aborts nothing: when
\* the batch returns, every vendor has run to its own outcome, and the deals
\* returned are exactly those of the vendors that succeeded.
C2_ExceptionIsolated ==
    batchPc = "returned" =>
        /\ \A v \in Vendors : taskResult[v].kind \in {"deal", "null", "exc"}
        /\ DealVendors = {v \in Vendors : taskResult[v].kind = "deal"}
        /\ \A i \in 1 .. Len(batchDeals) :
              batchDeals[i].price = taskResult[batchDeals[i].vendor].price

\* a batch that returned with one task raised, one caught failure and a deal
C2_Witness ==
    /\ batchPc = "returned"
    /\ \E v \in Vendors : taskResult[v].kind = "exc"
    /\ \E v \in Vendors : taskResult[v].kind = "null"
    /\ Len(batchDeals) >= 1

\* the widest reading of the acceptance rule: the quote is within budget, or
\* within 10% above it
WithinAcceptanceRule(q, budget) == q # None /\ q <= MulFrac(budget, 11, 10)

\* C3: no Deal with status DEAL_SUCCESS is produced unless the session's own
\* current_quote satisfies the acceptance rule against budget_max, and the
\* Deal's negotiated_price is that current_quote, whatever the oracle passes.
C3_DealOnlyAtAcceptableQuote ==
    lastReturn.kind = "DEAL_SUCCESS" =>
        /\ WithinAcceptanceRule(lastCall.current_quote, BudgetMax(lastCall.trip_context))
        /\ lastReturn.price = lastCall.current_quote

\* C4: once current_quote <= budget_max at the start of a round, no further
\* counter-offer round is played on the session.
C4_NoRoundOnceWithinBudget ==
    ~ /\ lastReturn.op = "send_message"
      /\ lastReturn.kind = "ok"
      /\ lastCall.current_quote # None
      /\ lastCall.current_quote <= BudgetMax(lastCall.trip_context)

\* C5: no Deal is returned for a session whose current_quote is still null.
C5_NoDealWithoutQuote ==
    lastReturn.kind = "DEAL_SUCCESS" => lastCall.current_quote # None

\* C6: the persisted round of a session never decreases and grows by exactly
\* one per completed round, across tool calls, streaming rounds and repeated
\* initiate_call on the same call_id.
C6_RoundStepsByOne ==
    [][\A c \in CallIds :
          (store[c].exists /\ InitialFields \subseteq store[c].fields /\ store'[c].exists)
              => store'[c].round \in {store[c].round, store[c].round + 1}]_vars

\* the price the vendor states in a transcript
QuoteSpoken(transcript) == IF transcript = "rate 5000" THEN Px(5000) ELSE None

VendorHeldAbove(c) ==
    \A i \in 1 .. Len(streamHistory) :
        streamHistory[i].speaker = "user" =>
            QuoteSpoken(streamHistory[i].text) >=
                MulFrac(BudgetMax(store[c].trip_context), 11, 10)

\* C7: if the vendor's quote never drops below budget_max*1.10 and max_rounds
\* is reached, the session's final status is DEADLOCK.
C7_MaxRoundsEndsInDeadlock ==
    \A c \in CallIds :
        ( /\ streamPc = "done"
          /\ streamRound = max_rounds
          /\ ~EndsCall(streamSpoken)
          /\ "trip_context" \in store[c].fields
          /\ Len(streamHistory) = 2 * max_rounds
          /\ VendorHeldAbove(c) )
        => store[c].status = "DEADLOCK"

\* C8: once the conceding vendor's quote lies in [budget_max, budget_max*1.10]
\* after at least two rounds, the session accepts in that round: no further
\* counter-offer round is played from such a quote.
C8_CloseEnoughAccepted ==
    ~ /\ lastReturn.op = "send_message"
      /\ lastReturn.kind = "ok"
      /\ lastCall.round >= 2
      /\ lastCall.current_quote >= BudgetMax(lastCall.trip_context)
      /\ lastCall.current_quote <= MulFrac(BudgetMax(lastCall.trip_context), 11, 10)

\* 4000, 3680, 3385.6, 3114.752, 2865.57184
ScenarioQuotes == <<Px(4000), Px(3680), 338560000, 311475200, 286557184>>

StatusRank(st) ==
    CASE st = "INITIATED" -> 1
      [] st = "GREETING" -> 2
      [] st = "QUALIFYING" -> 3
      [] st = "PITCHING" -> 4
      [] st = "NEGOTIATING" -> 5
      [] st = "CONFIRMING" -> 6
      [] st = "CLOSING" -> 7
      [] st = "COMPLETED" -> 8
      [] OTHER -> 0

\* C10: a session's status only moves forward along INITIATED .. COMPLETED, no
\* operation moves it backward, and DEADLOCK is entered only from QUALIFYING,
\* NEGOTIATING or CLOSING.
C10_StatusForwardOnly ==
    [][\A c \in CallIds :
          ( /\ store[c].exists /\ InitialFields \subseteq store[c].fields
            /\ store'[c].exists
            /\ store'[c].status # store[c].status )
          => IF store'[c].status = "DEADLOCK"
             THEN store[c].status \in {"QUALIFYING", "NEGOTIATING", "CLOSING"}
             ELSE StatusRank(store'[c].status) > StatusRank(store[c].status)]_vars

\* C11: in NEGOTIATING, a vendor counter above the acceptance threshold keeps
\* the session in NEGOTIATING (next action: continue with another counter-offer)
\* while round < max_rounds, and otherwise moves it to CLOSING (final offer or
\* reject); it never leads directly to CONFIRMING or to a terminal state.
C11_OverThresholdContinuesOrCloses ==
    [][( /\ sm.state = "NEGOTIATING"
         /\ sm'.round = sm.round + 1
         /\ ~Acceptable(sm'.current_quote, user_budget, sm'.round) )
       => IF sm.round < max_negotiation_attempts
          THEN /\ sm'.state = "NEGOTIATING"
               /\ sm'.next_action = "CONTINUE_NEGOTIATION"
          ELSE /\ sm'.state = "CLOSING"
               /\ sm'.next_action = "FINAL_OFFER_OR_REJECT"]_vars

\* the round at max_rounds, answered above the threshold, has led to CLOSING
C11_Witness ==
    /\ sm.state = "CLOSING"
    /\ sm.round = max_negotiation_attempts + 1
    /\ ~Acceptable(sm.current_quote, user_budget, sm.round)

\* C12: the QUALIFYING step depends on current_quote and budget_max alone: no
\* quote leads to DEADLOCK with next action END_CALL, a quote within budget
\* leads toward CONFIRMING, any other quote leads to PITCHING with a
\* counter-offer of budget_max plus 5% (3150 for a budget of 3000).
C12_QualifyingOutcome ==
    [][( (sm.state = "GREETING" /\ sm' # sm /\ sm.current_quote \in {None, 0})
            => (sm'.state = "DEADLOCK" /\ sm'.next_action = "END_CALL") )
       /\ ( (sm.state = "GREETING" /\ sm' # sm /\ sm.current_quote \notin {None, 0})
            => sm'.state = "QUALIFYING" )
       /\ ( (sm.state = "QUALIFYING" /\ sm' # sm)
            => IF sm.current_quote <= Px(3000)
               THEN sm'.state = "CONFIRMING"
               ELSE /\ sm'.state = "PITCHING"
                    /\ sm'.counter_offer = Px(3150) )]_vars

\* a quote above budget has been answered with the pitch
C12_Witness ==
    /\ sm.state = "PITCHING"
    /\ sm.current_quote > user_budget
    /\ sm.counter_offer = Px(3150)

\* C13: once the call has reached its terminal state at the end of
\* run_streaming_negotiation, its session is absent from the live store.
C13_TerminalSessionAbsent ==
    \A c \in CallIds :
        (streamPc = "done" /\ placed) => ~store[c].exists

IsPrefix(h1, h2) == Len(h1) <= Len(h2) /\ SubSeq(h2, 1, Len(h1)) = h1

\* C15: within a session's lifetime history is append-only: at every write,
\* by whichever path and in any interleaving, the history persisted before is
\* a prefix of the history persisted after.
C15_HistoryAppendOnly ==
    [][\A c \in CallIds :
          (store[c].exists /\ InitialFields \subseteq store[c].fields /\ store'[c].exists)
              => IsPrefix(store[c].history, store'[c].history)]_vars

\* the turns the webhook path wrote into a history
WebhookTurns(h) == {i \in 1 .. Len(h) : h[i].speaker = "agent"}

\* C17: when the webhook turn and the streaming task write the same call_id
\* in any interleaving, a write of the streaming task never erases or reverts
\* what the webhook turn wrote (its stage, its history turns), and a webhook
\* write never erases or reverts what the streaming task wrote (round, status,
\* final_round).
C17_NoCrossPathErasure ==
    [][\A c \in CallIds :
          /\ (InitialFields \subseteq store[c].fields /\ store'[c] # store[c]
                /\ streamPc' # streamPc)
                => /\ store'[c].stage = store[c].stage
                   /\ \A i \in WebhookTurns(store[c].history) :
                         /\ i <= Len(store'[c].history)
                         /\ store'[c].history[i] = store[c].history[i]
          /\ (InitialFields \subseteq store[c].fields /\ store'[c] # store[c]
                /\ streamPc' = streamPc /\ lastReturn' = lastReturn)
                => /\ store'[c].round = store[c].round
                   /\ store'[c].status = store[c].status
                   /\ store'[c].final_round = store[c].final_round]_vars

C18_CancelledTaskStillCloses ==
    \A c \in CallIds :
        (streamCancelled /\ streamRound >= 1 /\ ~TaskInFlight)
            => /\ streamPc = "done"
               /\ store[c].exists
               /\ store[c].status = "COMPLETED"
               /\ "final_round" \in store[c].fields

\* C19: a run of run_streaming_negotiation that ends without cancellation
\* requests hangup from the telephony collaborator exactly once and then
\* writes the outcome status and a round count equal to the rounds started.
C19_HangupOnceThenFinalWrite ==
    [][\A c \in CallIds :
          (streamPc = "closing" /\ streamPc' = "done" /\ placed)
              => /\ hangups' = hangups + 1
                 /\ store'[c].status = "COMPLETED"
                 /\ store'[c].final_round = streamRound]_vars

\* C21: for a call_id with no session in the store, a turn operation
\* (send_message, accept_deal, end_call, a webhook gather turn) answers with an
\* error and changes nothing: no document is created, no round, history or
\* stage is written, no escalation flag is set.
C21_UnknownCallFailsFast ==
    [][\A c \in CallIds :
          ( /\ ~store[c].exists
            /\ call_status' = call_status
            /\ ~(lastReturn'.op = "initiate_call") )
          => /\ store'[c] = store[c]
             /\ escalate' = escalate
             /\ lastReturn' # lastReturn => lastReturn'.kind = "error"]_vars

\* C23: the deals list negotiate_all_vendors returns holds exactly the
\* successful results: one entry for each vendor whose negotiation returned a
\* Deal, none for a vendor whose negotiation returned null or raised, and no
\* vendor twice.
C23_DealsAreExactlySuccesses ==
    batchPc = "returned" =>
        /\ Len(batchDeals) = Cardinality({v \in Vendors : taskResult[v].kind = "deal"})
        /\ \A v \in Vendors :
              Cardinality({i \in 1 .. Len(batchDeals) : batchDeals[i].vendor = v})
                  = (IF taskResult[v].kind = "deal" THEN 1 ELSE 0)

\* a batch returned two deals while two vendors ended without one, one of
\* them by raising
C23_Witness ==
    /\ batchPc = "returned"
    /\ Len(batchDeals) = 2
    /\ Cardinality({v \in Vendors : taskResult[v].kind # "deal"}) >= 2
    /\ \E v \in Vendors : taskResult[v].kind = "exc"

\* C24: every queued vendor task eventually obtains a slot of the counting
\* gate and runs; a slot is released on every exit path (deal, null result,
\* exception), so the batch eventually returns and ends with all K slots free.
C24_EveryQueuedTaskRuns ==
    <>[]( /\ batchPc = "returned"
          /\ sem = K
          /\ \A v \in Vendors : taskPc[v] = "done" /\ taskResult[v].kind # "pending" )

\* the gate is full again after a task that failed has given its slot back
C24_Witness ==
    /\ sem = 0
    /\ \E v \in Vendors : taskPc[v] = "done" /\ taskResult[v].kind = "null"

\* every call has ended: the streaming task is not running, every vendor task
\* of the batch has returned
AllCallsEnded ==
    /\ streamPc \in {"idle", "done"}
    /\ \A v \in Vendors : taskPc[v] = "done"

\* C22: every call terminates within max_rounds: run_streaming_negotiation
\* starts at most 6 rounds (rounds without a transcript included),
\* _negotiate_one_vendor plays at most 5 rounds, whatever the vendor says and
\* the oracle returns, and then each reaches its final state.
C22_CallsEndWithinMaxRounds ==
    /\ [](streamRound <= 6 /\ \A v \in Vendors : taskRound[v] <= 5)
    /\ <>[]AllCallsEnded

\* a streaming call that played all its rounds and wrote its final state,
\* after a batch whose calls all ended without a deal
C22_Witness ==
    /\ streamPc = "done"
    /\ streamRound = max_rounds
    /\ streamExit = "max_rounds"
    /\ \A v \in Vendors : taskPc[v] = "done"
    /\ \E c \in CallIds : store[c].final_round = max_rounds

\* no vendor turn of the task's history states a price
VendorNeverQuoted ==
    \A i \in 1 .. Len(streamHistory) :
        streamHistory[i].speaker = "user" => QuoteSpoken(streamHistory[i].text) = None

\* C27: if the vendor never states a parsable price, current_quote stays
\* null, the session retries exactly one more round and then the call moves
\* to DEADLOCK with no Deal.
C27_NoQuoteRetriesOnceThenDeadlock ==
    \A c \in CallIds :
        (streamPc = "done" /\ placed /\ store[c].exists /\ VendorNeverQuoted)
            => /\ store[c].current_quote = None
               /\ streamRound <= 2
               /\ store[c].status = "DEADLOCK"

\* C28: in a round listen is invoked at most twice, the second time only
\* after the first returned no text; if both return no text the round is a
\* no-transcript round: the oracle is not consulted, nothing is appended to
\* history, nothing is persisted and nothing is spoken, and the loop goes on.
C28_NoTranscriptRoundIsSkipped ==
    [][ /\ (streamPc = "listen" /\ streamPc' # "listen")
            => /\ streamPc' \in {"listen2", "speak"}
               /\ streamPc' = "listen2"
                     => /\ UNCHANGED <<streamRound, streamHistory, streamSpoken, store>>
                        /\ audio_buffer' = <<>>
        /\ (streamPc' = "listen2" /\ streamPc # "listen2") => streamPc = "listen"
        /\ (streamPc = "listen2" /\ streamPc' # "listen2")
            => \/ streamPc' = "speak"
               \/ /\ UNCHANGED <<streamHistory, streamSpoken, store>>
                  /\ IF streamRound < max_rounds
                     THEN streamPc' = "listen" /\ streamRound' = streamRound + 1
                     ELSE streamPc' = "closing" /\ streamRound' = streamRound
        /\ (streamPc \in {"listen", "listen2"} /\ streamPc' = "speak")
            => /\ Len(streamHistory') = Len(streamHistory) + 2
               /\ streamHistory'[Len(streamHistory) + 1].text # "" ]_vars

\* round 1 heard nothing twice and was skipped; round 2 has started with
\* nothing written
C28_Witness ==
    \E c \in CallIds :
        /\ streamPc = "listen"
        /\ streamRound = 2
        /\ streamHistory = <<>>
        /\ streamSpoken = ""
        /\ store[c].exists /\ store[c].round = 0 /\ store[c].history = <<>>

\* C29: when the oracle is unavailable in a round with a transcript, the
\* round still counts: the fallback utterance is the agent's turn, history
\* gains the vendor turn and that turn, the round number is persisted, the
\* utterance is handed to speak, and once speak returns the loop goes on to
\* the next round: the utterance never triggers the end-signal exit.
C29_FallbackRoundCounts ==
    [][\A c \in CallIds :
          /\ (~oracle_up /\ streamPc \in {"listen", "listen2"} /\ streamPc' = "speak")
                => /\ streamSpoken' = "fallback"
                   /\ Len(streamHistory') = Len(streamHistory) + 2
                   /\ SubSeq(streamHistory', 1, Len(streamHistory)) = streamHistory
                   /\ streamHistory'[Len(streamHistory) + 1].speaker = "user"
                   /\ streamHistory'[Len(streamHistory) + 1].text \in Transcripts \ {""}
                   /\ streamHistory'[Len(streamHistory) + 2] = Turn("assistant", "fallback", None)
                   /\ store'[c].round = streamRound
                   /\ store'[c].history = streamHistory'
          /\ (streamPc = "speak" /\ streamSpoken = "fallback" /\ streamPc' # "speak")
                => /\ streamExit' # "end_signal"
                   /\ streamExit' # "error"
                         => IF streamRound < max_rounds
                            THEN streamPc' = "listen" /\ streamRound' = streamRound + 1
                            ELSE streamPc' = "closing" /\ streamExit' = "max_rounds" ]_vars

\* the fallback utterance was the agent's turn of round 1 and round 2 started
C29_Witness ==
    \E c \in CallIds :
        /\ streamPc = "listen"
        /\ streamRound = 2
        /\ streamSpoken = "fallback"
        /\ Len(streamHistory) = 2
        /\ store[c].round = 1
        /\ store[c].history = streamHistory

\* C30: a transient failure of the speech-synthesis or speech-recognition
\* collaborator in round r never ends the negotiation: the round falls back
\* and round r+1 starts whenever r < max_rounds, so before max_rounds the
\* loop is left through an end signal only.
C30_CollaboratorFailureKeepsCall ==
    [][(streamPc \in {"listen", "listen2", "speak"} /\ streamRound < max_rounds
          /\ streamPc' = "closing")
       => streamExit' = "end_signal"]_vars

\* C25: sessions created by initiate_call for different (trip, vendor) pairs,
\* the same vendor phone under two trips included, never share a call_id:
\* no initiate_call replaces the stored session of another pair.
C25_CallIdPerTripAndVendor ==
    [][\A c \in CallIds :
          (store[c].exists /\ store'[c].exists /\ lastReturn'.op = "initiate_call")
              => store'[c].trip_context = store[c].trip_context]_vars

\* C26: a status callback with call_status completed, failed, busy or
\* no-answer is acknowledged and cleans the call up: once it has been handled
\* the call's session is no longer in the store.
C26_TerminalStatusCleansUp ==
    [][\A c \in CallIds :
          (call_status'[c] # call_status[c] /\ call_status'[c] \in TerminalStatuses)
              => ~store'[c].exists]_vars

\* C20: after the connection handler has returned, no negotiation task
\* created on the connection is still running uncancelled, whatever the
\* sequence of start, media and stop events.
C20_NoTaskInFlightAfterReturn ==
    connPc = "returned" =>
        /\ orphans = 0
        /\ TaskInFlight => streamCancelled

\* the step is one of the negotiation task, not its cancellation
TaskMoves == connPc' = connPc /\ streamCancelled' = streamCancelled

\* C31: when the transcoding of an agent utterance fails (the converter yields
\* no audio), the utterance is dropped: speak sends no media frame and returns
\* without raising, and the call goes on: the task is created after a dropped
\* greeting, and after a dropped utterance of a round the end-signal check
\* runs and the next round starts.
C31_FailedTranscodingDropsUtterance ==
    [][ /\ (connPc = "greeting" /\ connPc' = "open" /\ ~ffmpeg_up)
            => /\ frames_sent' = 0
               /\ streamPc' = "created"
        /\ (streamPc = "speak" /\ streamPc' # "speak" /\ ~ffmpeg_up /\ TaskMoves
              /\ streamExit' # "error")
            => /\ frames_sent' = 0
               /\ IF EndsCall(streamSpoken)
                  THEN streamPc' = "closing" /\ streamExit' = "end_signal"
                  ELSE IF streamRound < max_rounds
                  THEN streamPc' = "listen" /\ streamRound' = streamRound + 1
                  ELSE streamPc' = "closing" /\ streamExit' = "max_rounds" ]_vars

\* the utterance of round 1 was dropped and round 2 has started
C31_Witness ==
    /\ streamPc = "listen"
    /\ streamRound = 2
    /\ Len(streamHistory) = 2
    /\ frames_sent = 0
    /\ ~EndsCall(streamSpoken)

\* C32: in every completed round the steps come in this order: a transcript
\* is obtained, the oracle is consulted, the snapshot (history and round) is
\* persisted, the utterance is spoken, the end-signal check runs; no utterance
\* is spoken before the snapshot that holds it has been persisted.
C32_RoundStepsInOrder ==
    [][\A c \in CallIds :
          /\ (streamPc' = "speak" /\ streamPc # "speak")
                => /\ streamPc \in {"listen", "listen2"}
                   /\ Len(streamHistory') = Len(streamHistory) + 2
                   /\ streamHistory'[Len(streamHistory) + 1].speaker = "user"
                   /\ streamHistory'[Len(streamHistory) + 1].text # ""
                   /\ streamHistory'[Len(streamHistory) + 2] =
                          Turn("assistant", streamSpoken', None)
                   /\ store'[c].history = streamHistory'
                   /\ store'[c].round = streamRound'
                   /\ frames_sent' = frames_sent
          /\ (streamPc = "speak" /\ streamPc' # "speak")
                => /\ store[c].history = streamHistory
                   /\ store[c].round = streamRound
                   /\ streamHistory[Len(streamHistory)] = Turn("assistant", streamSpoken, None)
                   /\ UNCHANGED <<streamHistory, streamSpoken, store>>
                   /\ streamPc' = "listen" => ~EndsCall(streamSpoken) ]_vars

\* round 1 was completed: heard, answered, persisted, spoken, checked
C32_Witness ==
    \E c \in CallIds :
        /\ streamPc = "listen"
        /\ streamRound = 2
        /\ streamSpoken = "counter"
        /\ frames_sent = 1
        /\ Len(streamHistory) = 2
        /\ store[c].history = streamHistory
        /\ store[c].round = 1

\* C33: if the agent utterance of a round holds an end signal, no further
\* round is started even when round < max_rounds: the loop is left once the
\* utterance has been spoken, and the call goes on to the hangup request and
\* the final write (status, final_round).
C33_EndSignalStopsRounds ==
    [][\A c \in CallIds :
          /\ (streamPc = "speak" /\ streamSpoken \in EndingResponses /\ streamPc' # "speak")
                => /\ streamPc' = "closing"
                   /\ streamRound' = streamRound
          /\ (streamPc = "closing" /\ streamPc' # "closing")
                => /\ streamPc' = "done"
                   /\ placed => hangups' = hangups + 1
                   /\ store'[c].status = "COMPLETED"
                   /\ store'[c].final_round = streamRound ]_vars

\* the call ended on an end signal in a round before max_rounds
C33_Witness ==
    \E c \in CallIds :
        /\ streamPc = "done"
        /\ streamExit = "end_signal"
        /\ streamSpoken \in EndingResponses
        /\ streamRound < max_rounds
        /\ hangups = 1
        /\ store[c].status = "COMPLETED"
        /\ store[c].final_round = streamRound

\* C34: every inbound media frame is appended to the buffer in arrival order,
\* and each listen sends all the frames buffered so far, in that order, as one
\* request and leaves the buffer empty: no frame is submitted twice and none
\* received before a listen is left out of it, however media events and
\* listens interleave.
C34_FramesSubmittedOnceInOrder ==
    [][ /\ audio_buffer' # audio_buffer
            => \/ \E audio_payload \in Payloads :
                     /\ audio_buffer' = Append(audio_buffer, audio_payload)
                     /\ stt_request' = stt_request
               \/ /\ audio_buffer' = <<>>
                  /\ stt_request' = audio_buffer
        /\ (streamPc \in {"listen", "listen2"} /\ streamPc' # streamPc /\ TaskMoves)
            => /\ audio_buffer' = <<>>
               /\ audio_buffer # <<>> => stt_request' = audio_buffer ]_vars

\* a listen submitted two frames in their order of arrival, and two further
\* frames have arrived since
C34_Witness ==
    /\ stt_request = <<"a", "b">>
    /\ audio_buffer = <<"b", "a">>

\* an agent utterance is being synthesized and transcoded
Speaking == connPc = "greeting" \/ (streamPc = "speak" /\ connPc # "returned")

\* C35: frame ingestion is never stalled by speech output: while an agent
\* utterance, the greeting included, is being synthesized and transcoded, the
\* media events arriving on the connection are processed and buffered.
C35_SpeakNeverStallsIngestion ==
    (Speaking /\ Len(audio_buffer) < MaxBuffered)
        => ENABLED ConnMedia(Payloads, MaxBuffered)

\* a turn tool is called on some call_id
TurnToolCall ==
    \E c \in CallIds :
        \/ \E m \in Messages, o \in OfferArgs : send_message(c, m, o)
        \/ \E fp \in FinalPrices(store[c]) : accept_deal(c, fp)
        \/ end_call(c, "max_rounds_reached")

\* C36: at most one Deal per session: once accept_deal or end_call has
\* succeeded, the next accept_deal, send_message or end_call on that call_id,
\* unless initiate_call has created the session again, returns an error
\* payload and neither a Deal nor a new round.
C36_EndedSessionAnswersError ==
    [][(lastReturn.kind \in {"DEAL_SUCCESS", "CALL_ENDED"} /\ TurnToolCall)
          => lastReturn'.kind = "error"]_vars

\* C37: every successful send_message adds one to the persisted round and two
\* turns to the persisted history, however the store reads and writes of
\* concurrent invocations interleave: after n calls the round is n and the
\* history holds 2n turns.
C37_NoLostRound ==
    [][\A i \in Invocations :
          ( /\ sendCall[i] # NoCallRead
            /\ sendCall'[i] = NoCallRead
            /\ lastReturn'.kind = "ok" )
          => LET c == sendCall[i].call_id IN
             /\ store'[c].round = store[c].round + 1
             /\ Len(store'[c].history) = Len(store[c].history) + 2]_vars

\* the connection has received its start event and its handler has not ended
ConnStarted == starts > 0 /\ connPc # "returned"
PeerStarted == peerPc = "started"

\* C38: active_streams holds an entry for a call_id exactly while an open
\* connection for it has received its start event, and a closing connection
\* never removes the entry of another connection that is still open.
C38_RegistryMatchesOpenStreams ==
    \A c \in CallIds :
        /\ (active_streams[c] # "") <=> (ConnStarted \/ PeerStarted)
        /\ active_streams[c] = "conn" => ConnStarted
        /\ active_streams[c] = "peer" => PeerStarted

\* C39: the deals negotiate_all_vendors returns are in the relative order of
\* their vendors in the input list, whatever order the tasks finished in.
C39_DealsInInputOrder ==
    batchPc = "returned" =>
        \A i, j \in 1 .. Len(batchDeals) :
            i < j => batchDeals[i].vendor < batchDeals[j].vendor

\* the first deal of the list returned belongs to the task that was the last
\* to return one
C39_Witness ==
    /\ batchPc = "returned"
    /\ Len(batchDeals) >= 3
    /\ lastDeal = batchDeals[1].vendor

\* C40: when the dial fails inside initiate_call the tool returns an error
\* payload without call_id, and the session saved before dialing stays: status
\* INITIATED, round 0, empty history, no twilio_call_sid.
C40_FailedDialLeavesSession ==
    (lastReturn.op = "initiate_call" /\ lastReturn.kind = "error") =>
        /\ lastReturn.call_id = ""
        /\ lastReturn.deal = NoDeal
        /\ \A c \in CallIds :
              /\ store[c].exists
              /\ InitialFields \subseteq store[c].fields
              /\ store[c].status = "INITIATED"
              /\ store[c].round = 0
              /\ store[c].history = <<>>
              /\ store[c].current_quote = None
              /\ store[c].twilio_call_sid = ""

\* the dial failed for a vendor an earlier initiate_call had reached: the
\* session is there and the call SID of the earlier call is gone
C40_Witness ==
    /\ lastReturn.op = "initiate_call"
    /\ lastReturn.kind = "error"
    /\ placed
    /\ \E c \in CallIds : store[c].exists /\ store[c].twilio_call_sid = ""

====
